---------------------------- MODULE Spec2Model ----------------------------
(***************************************************************************)
(* Block header codec of nheqminer/primitives/block.h.                     *)
(*                                                                         *)
(* CBlockHeader / CBlock / CEquihashInput (primary family),                *)
(* ABlockHeader / ABlock / AEquihashInput (legacy single-hash family),     *)
(* CBlockLocator, and the Merkle tree operations CBlock declares.          *)
(*                                                                         *)
(* Byte streams are sequences over 0..255.  A uint256 is its 32 data       *)
(* bytes.  TLC integers are 32-bit signed, so the uint32 fields are drawn  *)
(* below 2^31; an int32 is encoded in two's complement.                    *)
(***************************************************************************)
EXTENDS Integers, Sequences, FiniteSets, TLC

(***************************************************************************)
(* Bounds of the model.                                                    *)
(***************************************************************************)
\* the longest nSolution tried; 253 is the first length whose length prefix
\* takes three bytes instead of one
MaxSolLen == 253
\* number of distinct sample values of a uint256 field (the first is zero)
NumHashVals == 3
\* the longest vHave of a locator
MaxHave == 2
\* the longest transaction list of a block
MaxLeaves == 5

(***************************************************************************)
(* serialize.h and uint256.h: the primitives READWRITE expands to.         *)
(***************************************************************************)
SER_NETWORK == 1
SER_DISK == 2
SER_GETHASH == 4
MAX_SIZE == 33554432

\* uint256(): all 32 bytes zero; base_blob::SetNull gives the same value
Uint256Null == [i \in 1..32 |-> 0]

\* four little-endian bytes of x, 0 <= x < 2^31
WriteLE32(x) ==
  << x % 256, (x \div 256) % 256, (x \div 65536) % 256, (x \div 16777216) % 256 >>

\* ser_writedata32 of an int32_t: two's complement, little-endian
WriteInt32(x) ==
  IF x >= 0 THEN WriteLE32(x)
  ELSE LET y == (x + 2147483647) + 1
           b == WriteLE32(y)
       IN  << b[1], b[2], b[3], b[4] + 128 >>

\* ser_writedata32 of a uint32_t
WriteUint32(x) == WriteLE32(x)

ReadLE32(b) == b[1] + 256 * b[2] + 65536 * b[3] + 16777216 * b[4]

\* ser_readdata32 into an int32_t
ReadInt32(b) ==
  IF b[4] < 128 THEN ReadLE32(b)
  ELSE (ReadLE32(<< b[1], b[2], b[3], b[4] - 128 >>) - 2147483647) - 1

\* ser_readdata32 into a uint32_t
ReadUint32(b) == ReadLE32(b)

\* WriteCompactSize: 1 byte below 253, else a marker byte and 2 or 4 bytes
WriteCompactSize(n) ==
  IF n < 253 THEN << n >>
  ELSE IF n <= 65535 THEN << 253, n % 256, n \div 256 >>
  ELSE << 254 >> \o WriteLE32(n)

\* the bytes buf[pos+1 .. pos+n] are there to be read
CanRead(buf, pos, n) == pos + n <= Len(buf)

Take(buf, pos, n) == SubSeq(buf, pos + 1, pos + n)

\* ReadCompactSize at offset pos: the size and the offset after it; fails on
\* a short stream, a non-canonical encoding or a size above MAX_SIZE
ReadCompactSize(buf, pos) ==
  IF ~CanRead(buf, pos, 1) THEN [ok |-> FALSE, val |-> 0, pos |-> pos]
  ELSE LET c == buf[pos + 1] IN
    IF c < 253 THEN [ok |-> TRUE, val |-> c, pos |-> pos + 1]
    ELSE IF c = 253 THEN
      IF ~CanRead(buf, pos + 1, 2) THEN [ok |-> FALSE, val |-> 0, pos |-> pos]
      ELSE LET n == buf[pos + 2] + 256 * buf[pos + 3]
           IN  [ok |-> n >= 253, val |-> n, pos |-> pos + 3]
    ELSE IF c = 254 THEN
      IF ~CanRead(buf, pos + 1, 4) THEN [ok |-> FALSE, val |-> 0, pos |-> pos]
      ELSE IF buf[pos + 5] >= 128 THEN [ok |-> FALSE, val |-> 0, pos |-> pos + 5]
      ELSE LET n == ReadLE32(Take(buf, pos + 1, 4))
           IN  [ok |-> n >= 65536 /\ n <= MAX_SIZE, val |-> n, pos |-> pos + 5]
    ELSE [ok |-> FALSE, val |-> 0, pos |-> pos]

\* Serialize of one value of the given C++ type
WriteField(type, v) ==
  CASE type = "int32_t"  -> WriteInt32(v)
    [] type = "uint32_t" -> WriteUint32(v)
    [] type = "uint256"  -> v
    [] type = "std::vector<unsigned char>" -> WriteCompactSize(Len(v)) \o v
    [] type = "std::vector<uint256>" ->
         LET F[k \in 0..Len(v)] == IF k = 0 THEN << >> ELSE F[k - 1] \o v[k]
         IN  WriteCompactSize(Len(v)) \o F[Len(v)]

\* Unserialize of one value of the given C++ type at offset pos; old is the
\* value the object holds, kept when the read throws
ReadField(type, old, buf, pos) ==
  CASE type = "int32_t" ->
         IF CanRead(buf, pos, 4)
         THEN [ok |-> TRUE, val |-> ReadInt32(Take(buf, pos, 4)), pos |-> pos + 4]
         ELSE [ok |-> FALSE, val |-> old, pos |-> pos]
    [] type = "uint32_t" ->
         IF CanRead(buf, pos, 4)
         THEN [ok |-> TRUE, val |-> ReadUint32(Take(buf, pos, 4)), pos |-> pos + 4]
         ELSE [ok |-> FALSE, val |-> old, pos |-> pos]
    [] type = "uint256" ->
         IF CanRead(buf, pos, 32)
         THEN [ok |-> TRUE, val |-> Take(buf, pos, 32), pos |-> pos + 32]
         ELSE [ok |-> FALSE, val |-> old, pos |-> pos]
    [] type = "std::vector<unsigned char>" ->
         LET n == ReadCompactSize(buf, pos) IN
         IF ~n.ok THEN [ok |-> FALSE, val |-> << >>, pos |-> n.pos]
         ELSE IF CanRead(buf, n.pos, n.val)
         THEN [ok |-> TRUE, val |-> Take(buf, n.pos, n.val), pos |-> n.pos + n.val]
         ELSE [ok |-> FALSE, val |-> [k \in 1..n.val |-> 0], pos |-> n.pos]
    [] type = "std::vector<uint256>" ->
         LET n == ReadCompactSize(buf, pos) IN
         IF ~n.ok THEN [ok |-> FALSE, val |-> << >>, pos |-> n.pos]
         ELSE IF CanRead(buf, n.pos, 32 * n.val)
         THEN [ok |-> TRUE,
               val |-> [k \in 1..n.val |-> Take(buf, n.pos + 32 * (k - 1), 32)],
               pos |-> n.pos + 32 * n.val]
         ELSE [ok |-> FALSE, val |-> << >>, pos |-> n.pos]

\* the READWRITE statements of a SerializationOp, run as a write: the fields
\* of obj in the order of ops, one after the other
RECURSIVE Serialize(_, _, _)
Serialize(obj, ops, types) ==
  IF ops = << >> THEN << >>
  ELSE WriteField(types[Head(ops)], obj[Head(ops)])
         \o Serialize(obj, Tail(ops), types)

\* the READWRITE statements of a SerializationOp, run as a read from offset
\* pos of buf into obj; the first read that throws ends the operation and the
\* fields after it keep their values
RECURSIVE Unserialize(_, _, _, _, _)
Unserialize(obj, ops, types, buf, pos) ==
  IF ops = << >> THEN [ok |-> TRUE, obj |-> obj, pos |-> pos]
  ELSE LET f == Head(ops)
           r == ReadField(types[f], obj[f], buf, pos)
           o == [obj EXCEPT ![f] = r.val]
       IN  IF r.ok THEN Unserialize(o, Tail(ops), types, buf, r.pos)
           ELSE [ok |-> FALSE, obj |-> o, pos |-> r.pos]

(***************************************************************************)
(* Sample values of the fields.                                            *)
(***************************************************************************)
\* the k-th sample uint256: zero for k = 0, else 32 distinct-looking bytes
HashSample(k) ==
  [i \in 1..32 |-> IF k = 0 THEN 0 ELSE (k * i + 7 * (k - 1)) % 256]

HashVals == { HashSample(k) : k \in 0..(NumHashVals - 1) }

\* the solution of length n: bytes 1, 2, 3, ... (mod 256)
SolSample(n) == [i \in 1..n |-> i % 256]

SolVals == { SolSample(n) : n \in {0, 1, MaxSolLen - 1, MaxSolLen} }

VersionVals == {4, -1}
TimeVals == {0, 1600000000}
BitsVals == {0, 486604799}

(***************************************************************************)
(* class CBlockHeader                                                      *)
(***************************************************************************)
HEADER_SIZE == 4 + 32 + 32 + 32 + 4 + 4 + 32
CURRENT_VERSION == 4

\* the data members and their types
CBlockHeaderTypes ==
  [ nVersion       |-> "int32_t",
    hashPrevBlock  |-> "uint256",
    hashMerkleRoot |-> "uint256",
    hashReserved   |-> "uint256",
    nTime          |-> "uint32_t",
    nBits          |-> "uint32_t",
    nNonce         |-> "uint256",
    nSolution      |-> "std::vector<unsigned char>" ]

\* the values a caller assigns to a public data member
CBlockHeaderVals ==
  [ nVersion       |-> VersionVals,
    hashPrevBlock  |-> HashVals,
    hashMerkleRoot |-> HashVals,
    hashReserved   |-> HashVals,
    nTime          |-> TimeVals,
    nBits          |-> BitsVals,
    nNonce         |-> HashVals,
    nSolution      |-> SolVals ]

\* CBlockHeader::SerializationOp without READWRITE(hashReserved)
CBlockHeaderSerializationOp_NoReserved ==
  << "nVersion", "hashPrevBlock", "hashMerkleRoot",
     "nTime", "nBits", "nNonce", "nSolution" >>

\* CBlockHeader::SerializationOp without READWRITE(nNonce)
CBlockHeaderSerializationOp_NoNonce ==
  << "nVersion", "hashPrevBlock", "hashMerkleRoot", "hashReserved",
     "nTime", "nBits", "nSolution" >>

\* CBlockHeader::SerializationOp: the fields in READWRITE order.  The
\* assignment nVersion = this->nVersion only changes the version argument
\* handed to the later READWRITEs, which no field type here looks at.
CBlockHeaderSerializationOp ==
  << "nVersion", "hashPrevBlock", "hashMerkleRoot", "hashReserved",
     "nTime", "nBits", "nNonce", "nSolution" >>

\* CBlockHeader::SetNull without nNonce = uint256()
CBlockHeaderSetNull_KeepsNonce(h) ==
  [h EXCEPT !.nVersion       = CURRENT_VERSION,
            !.hashPrevBlock  = Uint256Null,
            !.hashMerkleRoot = Uint256Null,
            !.hashReserved   = Uint256Null,
            !.nTime          = 0,
            !.nBits          = 0,
            !.nSolution      = << >>]

\* CBlockHeader::SetNull, on the header part of h
CBlockHeaderSetNull(h) ==
  [h EXCEPT !.nVersion       = CURRENT_VERSION,
            !.hashPrevBlock  = Uint256Null,
            !.hashMerkleRoot = Uint256Null,
            !.hashReserved   = Uint256Null,
            !.nTime          = 0,
            !.nBits          = 0,
            !.nNonce         = Uint256Null,
            !.nSolution      = << >>]

\* the members before a constructor body runs: the scalars hold whatever the
\* storage held, the uint256 and the vector are default-constructed
CBlockHeaderRaw ==
  { [ nVersion |-> v, hashPrevBlock |-> Uint256Null,
      hashMerkleRoot |-> Uint256Null, hashReserved |-> Uint256Null,
      nTime |-> t, nBits |-> b, nNonce |-> Uint256Null, nSolution |-> << >> ]
    : v \in VersionVals, t \in TimeVals, b \in BitsVals }

\* CBlockHeader::CBlockHeader(), on the storage raw
NewCBlockHeader(raw) == CBlockHeaderSetNull(raw)

\* CBlockHeader::IsNull testing nTime instead of nBits
CBlockHeaderIsNull_Time(h) == (h.nTime = 0)

\* CBlockHeader::IsNull
CBlockHeaderIsNull(h) == (h.nBits = 0)

\* the implicit copy assignment *((CBlockHeader*)this) = header
CBlockHeaderAssign(this, header) ==
  [this EXCEPT !.nVersion       = header.nVersion,
               !.hashPrevBlock  = header.hashPrevBlock,
               !.hashMerkleRoot = header.hashMerkleRoot,
               !.hashReserved   = header.hashReserved,
               !.nTime          = header.nTime,
               !.nBits          = header.nBits,
               !.nNonce         = header.nNonce,
               !.nSolution      = header.nSolution]

(***************************************************************************)
(* class CEquihashInput                                                    *)
(***************************************************************************)
\* CEquihashInput::CEquihashInput(const CBlockHeader&), on the storage raw
NewCEquihashInput(raw, header) ==
  CBlockHeaderAssign(CBlockHeaderSetNull(raw), header)

\* CEquihashInput::SerializationOp with nBits written before nTime
CEquihashInputSerializationOp_BitsFirst ==
  << "nVersion", "hashPrevBlock", "hashMerkleRoot", "hashReserved",
     "nBits", "nTime" >>

\* CEquihashInput::SerializationOp: the fields in READWRITE order
CEquihashInputSerializationOp ==
  << "nVersion", "hashPrevBlock", "hashMerkleRoot", "hashReserved",
     "nTime", "nBits" >>

(***************************************************************************)
(* class CBlock                                                            *)
(***************************************************************************)
\* the members of a CBlock before a constructor body runs: the base part as
\* for a header, the two vectors default-constructed
CBlockRaw ==
  { [ nVersion |-> r.nVersion, hashPrevBlock |-> r.hashPrevBlock,
      hashMerkleRoot |-> r.hashMerkleRoot, hashReserved |-> r.hashReserved,
      nTime |-> r.nTime, nBits |-> r.nBits, nNonce |-> r.nNonce,
      nSolution |-> r.nSolution, vtx |-> << >>, vMerkleTree |-> << >> ]
    : r \in CBlockHeaderRaw }

\* CBlock::SetNull
CBlockSetNull(b) ==
  [CBlockHeaderSetNull(b) EXCEPT !.vtx = << >>, !.vMerkleTree = << >>]

\* CBlock::CBlock(), on the storage raw
NewCBlock(raw) == CBlockSetNull(raw)

\* CBlock::CBlock(const CBlockHeader&), on the storage raw
NewCBlockFrom(raw, header) == CBlockHeaderAssign(CBlockSetNull(raw), header)

\* CBlock::GetBlockHeader without block.hashReserved = hashReserved
GetBlockHeader_NoReserved(raw, b) ==
  LET block == NewCBlockHeader(raw)
  IN  [block EXCEPT !.nVersion       = b.nVersion,
                    !.hashPrevBlock  = b.hashPrevBlock,
                    !.hashMerkleRoot = b.hashMerkleRoot,
                    !.nTime          = b.nTime,
                    !.nBits          = b.nBits,
                    !.nNonce         = b.nNonce,
                    !.nSolution      = b.nSolution]

\* CBlock::GetBlockHeader; raw is the storage of the local `block`
GetBlockHeader(raw, b) ==
  LET block == NewCBlockHeader(raw)
  IN  [block EXCEPT !.nVersion       = b.nVersion,
                    !.hashPrevBlock  = b.hashPrevBlock,
                    !.hashMerkleRoot = b.hashMerkleRoot,
                    !.hashReserved   = b.hashReserved,
                    !.nTime          = b.nTime,
                    !.nBits          = b.nBits,
                    !.nNonce         = b.nNonce,
                    !.nSolution      = b.nSolution]

(***************************************************************************)
(* struct CBlockLocator                                                    *)
(***************************************************************************)
\* nType & SER_GETHASH, as a truth value
HasSER_GETHASH(nType) == (nType \div SER_GETHASH) % 2 = 1

TypeVals == { SER_NETWORK, SER_DISK, SER_GETHASH,
              SER_NETWORK + SER_GETHASH, SER_DISK + SER_GETHASH }

\* the protocol version a caller passes to the serializer
ClientVersionVals == {170002, 1}

\* CBlockLocator::CBlockLocator(const std::vector<uint256>&)
NewCBlockLocator(vHaveIn) == [vHave |-> vHaveIn]

\* CBlockLocator::SetNull
CBlockLocatorSetNull(l) == [l EXCEPT !.vHave = << >>]

\* CBlockLocator::IsNull
CBlockLocatorIsNull(l) == (l.vHave = << >>)

CBlockLocatorTypes ==
  [ nVersion |-> "int32_t", vHave |-> "std::vector<uint256>" ]

\* CBlockLocator::SerializationOp with the test of SER_GETHASH inverted
CBlockLocatorSerializationOp_Inverted(nType) ==
  IF HasSER_GETHASH(nType) THEN << "nVersion", "vHave" >> ELSE << "vHave" >>

\* CBlockLocator::SerializationOp: the READWRITE statements that run for nType
CBlockLocatorSerializationOp(nType) ==
  IF ~HasSER_GETHASH(nType) THEN << "nVersion", "vHave" >> ELSE << "vHave" >>

\* the locator together with the nVersion argument of SerializationOp
LocatorFrame(l, nVersion) == [nVersion |-> nVersion, vHave |-> l.vHave]

(***************************************************************************)
(* class ABlockHeader                                                      *)
(***************************************************************************)
AHEADER_SIZE == 32

ABlockHeaderTypes ==
  [ headerHash |-> "uint256",
    nNonce     |-> "uint256",
    nSolution  |-> "std::vector<unsigned char>" ]

ABlockHeaderVals ==
  [ headerHash |-> HashVals, nNonce |-> HashVals, nSolution |-> SolVals ]

\* ABlockHeader::SerializationOp with nNonce written before headerHash
ABlockHeaderSerializationOp_NonceFirst == << "nNonce", "headerHash", "nSolution" >>

\* ABlockHeader::SerializationOp: the fields in READWRITE order
ABlockHeaderSerializationOp == << "headerHash", "nNonce", "nSolution" >>

\* the member functions ABlockHeader declares (IsNull and GetBlockTime are
\* commented out)
ABlockHeaderMethods ==
  { "ABlockHeader", "Serialize", "Unserialize", "GetSerializeSize",
    "SerializationOp", "SetNull", "GetHash" }

\* the member functions CBlockHeader declares
CBlockHeaderMethods ==
  { "CBlockHeader", "Serialize", "Unserialize", "GetSerializeSize",
    "SerializationOp", "SetNull", "IsNull", "GetHash", "GetBlockTime" }

\* ABlockHeader::SetNull without nSolution.clear()
ABlockHeaderSetNull_KeepsSolution(h) ==
  [h EXCEPT !.headerHash = Uint256Null,
            !.nNonce     = Uint256Null]

\* ABlockHeader::SetNull, on the header part of h
ABlockHeaderSetNull(h) ==
  [h EXCEPT !.headerHash = Uint256Null,
            !.nNonce     = Uint256Null,
            !.nSolution  = << >>]

\* the members before a constructor body runs, all default-constructed
ABlockHeaderRaw ==
  [ headerHash |-> Uint256Null, nNonce |-> Uint256Null, nSolution |-> << >> ]

\* ABlockHeader::ABlockHeader()
NewABlockHeader == ABlockHeaderSetNull(ABlockHeaderRaw)

\* the implicit copy assignment *((ABlockHeader*)this) = header
ABlockHeaderAssign(this, header) ==
  [this EXCEPT !.headerHash = header.headerHash,
               !.nNonce     = header.nNonce,
               !.nSolution  = header.nSolution]

(***************************************************************************)
(* class AEquihashInput                                                    *)
(***************************************************************************)
\* AEquihashInput::AEquihashInput(const ABlockHeader&)
NewAEquihashInput(header) ==
  ABlockHeaderAssign(ABlockHeaderSetNull(ABlockHeaderRaw), header)

\* AEquihashInput::SerializationOp: the fields in READWRITE order
AEquihashInputSerializationOp == << "headerHash" >>

(***************************************************************************)
(* class ABlock                                                            *)
(***************************************************************************)
ABlockRaw ==
  [ headerHash |-> Uint256Null, nNonce |-> Uint256Null, nSolution |-> << >>,
    vMerkleTree |-> << >> ]

\* ABlock::SetNull (vMerkleTree.clear() is commented out)
ABlockSetNull(b) == ABlockHeaderSetNull(b)

\* ABlock::ABlock(const ABlockHeader&)
NewABlockFrom(header) == ABlockHeaderAssign(ABlockSetNull(ABlockRaw), header)

\* ABlock::GetBlockHeader
AGetBlockHeader(b) ==
  LET block == NewABlockHeader
  IN  [block EXCEPT !.headerHash = b.headerHash,
                    !.nNonce     = b.nNonce,
                    !.nSolution  = b.nSolution]

(***************************************************************************)
(* The Merkle tree operations of CBlock.  A hash is a sequence of numbers: *)
(* a transaction hash is << k >> with k >= 1, and the digest of two hashes *)
(* is the prefix-form term over them, so that two digests are equal only   *)
(* when they were computed from equal inputs.                              *)
(***************************************************************************)
Min(a, b) == IF a <= b THEN a ELSE b

\* Hash(left || right)
Hash(l, r) == << 0 >> \o l \o r

TxVals == { << 1 >>, << 2 >> }

\* the transaction lists of length 0..n
RECURSIVE TxLists(_)
TxLists(n) ==
  IF n = 0 THEN { << >> }
  ELSE LET S == TxLists(n - 1)
       IN  S \cup { Append(l, x) : l \in { m \in S : Len(m) = n - 1 }, x \in TxVals }

\* one pass of the inner loop of BuildMerkleTree: element i paired with
\* element min(i+1, n-1)
NextLevel(level) ==
  LET n == Len(level)
  IN  [k \in 1..((n + 1) \div 2) |->
         Hash(level[2 * k - 1], level[Min(2 * k, n)])]

\* some pair (i, i+1), i even, of the level holds two equal hashes
LevelMutated(level) ==
  \E k \in 1..(Len(level) \div 2) : level[2 * k - 1] = level[2 * k]

\* the levels from `level` up to the root, one after the other
RECURSIVE BuildLevels(_)
BuildLevels(level) ==
  IF Len(level) <= 1 THEN level
  ELSE level \o BuildLevels(NextLevel(level))

RECURSIVE AnyLevelMutated(_)
AnyLevelMutated(level) ==
  IF Len(level) <= 1 THEN FALSE
  ELSE LevelMutated(level) \/ AnyLevelMutated(NextLevel(level))

\* the digest of the empty byte string
EmptyDigest == << 0 >>

\* CBlock::BuildMerkleTree: the tree, the root and the mutation flag
BuildMerkleTree(vtx) ==
  LET tree == BuildLevels(vtx)
  IN  [ vMerkleTree |-> tree,
        root |-> IF tree = << >> THEN EmptyDigest ELSE tree[Len(tree)],
        mutated |-> AnyLevelMutated(vtx) ]

\* the sibling taken to be the next element whatever the parity of nIndex
Xor1_AlwaysNext(i) == i + 1

\* nIndex ^ 1
Xor1(i) == IF i % 2 = 0 THEN i + 1 ELSE i - 1

\* the loop of GetMerkleBranch from the level that starts at offset j of
\* the tree and has nSize elements
RECURSIVE BranchFrom(_, _, _, _)
BranchFrom(tree, j, nSize, nIndex) ==
  IF nSize <= 1 THEN << >>
  ELSE << tree[j + Min(Xor1(nIndex), nSize - 1) + 1] >>
         \o BranchFrom(tree, j + nSize, (nSize + 1) \div 2, nIndex \div 2)

\* CBlock::GetMerkleBranch on a built tree over nLeaves leaves
GetMerkleBranch(tree, nLeaves, nIndex) == BranchFrom(tree, 0, nLeaves, nIndex)

\* CBlock::CheckMerkleBranch
RECURSIVE CheckMerkleBranch(_, _, _)
CheckMerkleBranch(hash, vMerkleBranch, nIndex) ==
  IF vMerkleBranch = << >> THEN hash
  ELSE LET otherside == Head(vMerkleBranch)
           h == IF nIndex % 2 = 1 THEN Hash(otherside, hash)
                ELSE Hash(hash, otherside)
       IN  CheckMerkleBranch(h, Tail(vMerkleBranch), nIndex \div 2)

(***************************************************************************)
(* The state: one object of each class, the stream they are written to and *)
(* read from, and what the last call returned.  A run exercises the        *)
(* classes of one family (focus); op names the last operation.             *)
(***************************************************************************)
VARIABLES
  focus,      \* the family of classes the run exercises
  op,         \* the last operation
  hdr,        \* a CBlockHeader
  ahdr,       \* an ABlockHeader
  stream,     \* the CDataStream the full encoding is written to
  powInput,   \* the CDataStream the Equihash input is written to
  eqin,       \* a CEquihashInput
  aeqin,      \* an AEquihashInput
  dec,        \* the CBlockHeader the stream is read into
  adec,       \* the ABlockHeader the stream is read into
  decOk,      \* the read returned (TRUE) or threw (FALSE)
  blk,        \* a CBlock
  ablk,       \* an ABlock
  out,        \* the CBlockHeader GetBlockHeader returned
  aout,       \* the ABlockHeader GetBlockHeader returned
  loc,        \* a CBlockLocator
  call,       \* the arguments of the last call
  ret         \* what the Merkle operations returned

vars == << focus, op, hdr, ahdr, stream, powInput, eqin, aeqin, dec, adec,
           decOk, blk, ablk, out, aout, loc, call, ret >>

Families == { "CBlockHeader", "ABlockHeader", "CBlockLocator", "MerkleTree" }

NoCall == [nType |-> 0, nVersion |-> 0, nIndex |-> 0]
NoRet  == [root |-> << >>, mutated |-> FALSE, branch |-> << >>,
           branchOk |-> FALSE, folded |-> << >>]

Init ==
  /\ focus \in Families
  /\ op = "new"
  /\ hdr \in { NewCBlockHeader(raw) : raw \in CBlockHeaderRaw }
  /\ eqin = hdr
  /\ dec = hdr
  /\ out = hdr
  /\ blk \in { NewCBlock(raw) : raw \in CBlockRaw }
  /\ ahdr = NewABlockHeader
  /\ aeqin = ahdr
  /\ adec = ahdr
  /\ aout = ahdr
  /\ ablk = ABlockSetNull(ABlockRaw)
  /\ stream = << >>
  /\ powInput = << >>
  /\ decOk = TRUE
  /\ loc = NewCBlockLocator(<< >>)
  /\ call = NoCall
  /\ ret = NoRet

\* the object of the family is being filled in by its owner
Assembling(f) == focus = f /\ op \in { "new", "assign", "SetNull" }

(***************************************************************************)
(* The primary family.                                                     *)
(***************************************************************************)
\* the owner assigns one public data member of the header
AssignHeaderField ==
  /\ Assembling("CBlockHeader")
  /\ \E f \in DOMAIN CBlockHeaderVals : \E v \in CBlockHeaderVals[f] :
        /\ hdr[f] # v
        /\ hdr' = [hdr EXCEPT ![f] = v]
  /\ op' = "assign"
  /\ UNCHANGED << focus, ahdr, stream, powInput, eqin, aeqin, dec, adec,
                  decOk, blk, ablk, out, aout, loc, call, ret >>

\* hdr.SetNull()
HeaderSetNull ==
  /\ Assembling("CBlockHeader")
  /\ hdr' = CBlockHeaderSetNull(hdr)
  /\ op' = "SetNull"
  /\ UNCHANGED << focus, ahdr, stream, powInput, eqin, aeqin, dec, adec,
                  decOk, blk, ablk, out, aout, loc, call, ret >>

\* stream << hdr
HeaderSerialize ==
  /\ Assembling("CBlockHeader")
  /\ stream' = stream \o Serialize(hdr, CBlockHeaderSerializationOp,
                                    CBlockHeaderTypes)
  /\ op' = "Serialize"
  /\ UNCHANGED << focus, hdr, ahdr, powInput, eqin, aeqin, dec, adec,
                  decOk, blk, ablk, out, aout, loc, call, ret >>

\* CEquihashInput I(hdr)
EquihashInputNew ==
  /\ focus = "CBlockHeader" /\ op = "Serialize"
  /\ \E raw \in CBlockHeaderRaw : eqin' = NewCEquihashInput(raw, hdr)
  /\ op' = "CEquihashInput"
  /\ UNCHANGED << focus, hdr, ahdr, stream, powInput, aeqin, dec, adec,
                  decOk, blk, ablk, out, aout, loc, call, ret >>

\* powInput << I
EquihashInputSerialize ==
  /\ focus = "CBlockHeader" /\ op = "CEquihashInput"
  /\ powInput' = powInput \o Serialize(eqin, CEquihashInputSerializationOp,
                                        CBlockHeaderTypes)
  /\ op' = "SerializeInput"
  /\ UNCHANGED << focus, hdr, ahdr, stream, eqin, aeqin, dec, adec,
                  decOk, blk, ablk, out, aout, loc, call, ret >>

\* the stream loses its last byte before it is read
StreamTruncate ==
  /\ focus \in { "CBlockHeader", "ABlockHeader" } /\ op = "Serialize"
  /\ stream # << >>
  /\ stream' = SubSeq(stream, 1, Len(stream) - 1)
  /\ op' = "truncate"
  /\ UNCHANGED << focus, hdr, ahdr, powInput, eqin, aeqin, dec, adec,
                  decOk, blk, ablk, out, aout, loc, call, ret >>

\* CBlockHeader dec; stream >> dec
HeaderUnserialize ==
  /\ focus = "CBlockHeader" /\ op \in { "Serialize", "truncate" }
  /\ \E raw \in CBlockHeaderRaw :
        LET r == Unserialize(NewCBlockHeader(raw), CBlockHeaderSerializationOp,
                             CBlockHeaderTypes, stream, 0)
        IN  /\ dec' = r.obj
            /\ decOk' = r.ok
  /\ op' = IF op = "Serialize" THEN "Unserialize" ELSE "UnserializeShort"
  /\ UNCHANGED << focus, hdr, ahdr, stream, powInput, eqin, aeqin, adec,
                  blk, ablk, out, aout, loc, call, ret >>

\* CBlock blk(hdr)
BlockNew ==
  /\ Assembling("CBlockHeader")
  /\ \E raw \in CBlockRaw : blk' = NewCBlockFrom(raw, hdr)
  /\ op' = "CBlock"
  /\ UNCHANGED << focus, hdr, ahdr, stream, powInput, eqin, aeqin, dec, adec,
                  decOk, ablk, out, aout, loc, call, ret >>

\* out = blk.GetBlockHeader()
BlockGetBlockHeader ==
  /\ focus = "CBlockHeader" /\ op = "CBlock"
  /\ \E raw \in CBlockHeaderRaw : out' = GetBlockHeader(raw, blk)
  /\ op' = "GetBlockHeader"
  /\ UNCHANGED << focus, hdr, ahdr, stream, powInput, eqin, aeqin, dec, adec,
                  decOk, blk, ablk, aout, loc, call, ret >>

(***************************************************************************)
(* The legacy family.                                                      *)
(***************************************************************************)
\* the owner assigns one public data member of the legacy header
AssignAHeaderField ==
  /\ Assembling("ABlockHeader")
  /\ \E f \in DOMAIN ABlockHeaderVals : \E v \in ABlockHeaderVals[f] :
        /\ ahdr[f] # v
        /\ ahdr' = [ahdr EXCEPT ![f] = v]
  /\ op' = "assign"
  /\ UNCHANGED << focus, hdr, stream, powInput, eqin, aeqin, dec, adec,
                  decOk, blk, ablk, out, aout, loc, call, ret >>

\* ahdr.SetNull()
AHeaderSetNull ==
  /\ Assembling("ABlockHeader")
  /\ ahdr' = ABlockHeaderSetNull(ahdr)
  /\ op' = "SetNull"
  /\ UNCHANGED << focus, hdr, stream, powInput, eqin, aeqin, dec, adec,
                  decOk, blk, ablk, out, aout, loc, call, ret >>

\* stream << ahdr
AHeaderSerialize ==
  /\ Assembling("ABlockHeader")
  /\ stream' = stream \o Serialize(ahdr, ABlockHeaderSerializationOp,
                                    ABlockHeaderTypes)
  /\ op' = "Serialize"
  /\ UNCHANGED << focus, hdr, ahdr, powInput, eqin, aeqin, dec, adec,
                  decOk, blk, ablk, out, aout, loc, call, ret >>

\* AEquihashInput I(ahdr)
AEquihashInputNew ==
  /\ focus = "ABlockHeader" /\ op = "Serialize"
  /\ aeqin' = NewAEquihashInput(ahdr)
  /\ op' = "AEquihashInput"
  /\ UNCHANGED << focus, hdr, ahdr, stream, powInput, eqin, dec, adec,
                  decOk, blk, ablk, out, aout, loc, call, ret >>

\* powInput << I
AEquihashInputSerialize ==
  /\ focus = "ABlockHeader" /\ op = "AEquihashInput"
  /\ powInput' = powInput \o Serialize(aeqin, AEquihashInputSerializationOp,
                                        ABlockHeaderTypes)
  /\ op' = "SerializeInput"
  /\ UNCHANGED << focus, hdr, ahdr, stream, eqin, aeqin, dec, adec,
                  decOk, blk, ablk, out, aout, loc, call, ret >>

\* ABlockHeader adec; stream >> adec
AHeaderUnserialize ==
  /\ focus = "ABlockHeader" /\ op \in { "Serialize", "truncate" }
  /\ LET r == Unserialize(NewABlockHeader, ABlockHeaderSerializationOp,
                          ABlockHeaderTypes, stream, 0)
     IN  /\ adec' = r.obj
         /\ decOk' = r.ok
  /\ op' = IF op = "Serialize" THEN "Unserialize" ELSE "UnserializeShort"
  /\ UNCHANGED << focus, hdr, ahdr, stream, powInput, eqin, aeqin, dec,
                  blk, ablk, out, aout, loc, call, ret >>

\* ABlock ablk(ahdr)
ABlockNew ==
  /\ Assembling("ABlockHeader")
  /\ ablk' = NewABlockFrom(ahdr)
  /\ op' = "ABlock"
  /\ UNCHANGED << focus, hdr, ahdr, stream, powInput, eqin, aeqin, dec, adec,
                  decOk, blk, out, aout, loc, call, ret >>

\* aout = ablk.GetBlockHeader()
ABlockGetBlockHeader ==
  /\ focus = "ABlockHeader" /\ op = "ABlock"
  /\ aout' = AGetBlockHeader(ablk)
  /\ op' = "GetBlockHeader"
  /\ UNCHANGED << focus, hdr, ahdr, stream, powInput, eqin, aeqin, dec, adec,
                  decOk, blk, ablk, out, loc, call, ret >>

(***************************************************************************)
(* The locator.                                                            *)
(***************************************************************************)
\* the owner appends a hash to vHave
LocatorPush ==
  /\ Assembling("CBlockLocator")
  /\ Len(loc.vHave) < MaxHave
  /\ \E h \in HashVals : loc' = [loc EXCEPT !.vHave = Append(@, h)]
  /\ op' = "assign"
  /\ UNCHANGED << focus, hdr, ahdr, stream, powInput, eqin, aeqin, dec, adec,
                  decOk, blk, ablk, out, aout, call, ret >>

\* loc.SetNull()
LocatorSetNull ==
  /\ Assembling("CBlockLocator")
  /\ loc' = CBlockLocatorSetNull(loc)
  /\ op' = "SetNull"
  /\ UNCHANGED << focus, hdr, ahdr, stream, powInput, eqin, aeqin, dec, adec,
                  decOk, blk, ablk, out, aout, call, ret >>

\* loc.Serialize(stream, nType, nVersion), then the same locator written to
\* powInput in the hashing mode nType | SER_GETHASH
LocatorSerialize ==
  /\ Assembling("CBlockLocator")
  /\ \E nType \in TypeVals, nVersion \in ClientVersionVals :
        LET hashType == IF HasSER_GETHASH(nType) THEN nType
                        ELSE nType + SER_GETHASH
        IN  /\ stream' = stream \o Serialize(LocatorFrame(loc, nVersion),
                                   CBlockLocatorSerializationOp(nType),
                                   CBlockLocatorTypes)
            /\ powInput' = powInput \o Serialize(LocatorFrame(loc, nVersion),
                                   CBlockLocatorSerializationOp(hashType),
                                   CBlockLocatorTypes)
            /\ call' = [call EXCEPT !.nType = nType, !.nVersion = nVersion]
  /\ op' = "Serialize"
  /\ UNCHANGED << focus, hdr, ahdr, eqin, aeqin, dec, adec,
                  decOk, blk, ablk, out, aout, loc, ret >>

(***************************************************************************)
(* The Merkle tree of a block.                                             *)
(***************************************************************************)
\* the owner fills in the transactions of the block
BlockSetVtx ==
  /\ focus = "MerkleTree" /\ op = "new"
  /\ \E l \in TxLists(MaxLeaves) : blk' = [blk EXCEPT !.vtx = l]
  /\ op' = "assign"
  /\ UNCHANGED << focus, hdr, ahdr, stream, powInput, eqin, aeqin, dec, adec,
                  decOk, ablk, out, aout, loc, call, ret >>

\* root = blk.BuildMerkleTree(&mutated)
BlockBuildMerkleTree ==
  /\ focus = "MerkleTree" /\ op = "assign"
  /\ LET b == BuildMerkleTree(blk.vtx)
     IN  /\ blk' = [blk EXCEPT !.vMerkleTree = b.vMerkleTree]
         /\ ret' = [ret EXCEPT !.root = b.root, !.mutated = b.mutated]
  /\ op' = "BuildMerkleTree"
  /\ UNCHANGED << focus, hdr, ahdr, stream, powInput, eqin, aeqin, dec, adec,
                  decOk, ablk, out, aout, loc, call >>

\* branch = blk.GetMerkleBranch(nIndex); an index outside the leaves fails
BlockGetMerkleBranch ==
  /\ focus = "MerkleTree" /\ op = "BuildMerkleTree"
  /\ \E nIndex \in (-1)..Len(blk.vtx) :
        LET inRange == nIndex >= 0 /\ nIndex < Len(blk.vtx)
        IN  /\ call' = [call EXCEPT !.nIndex = nIndex]
            /\ ret' = [ret EXCEPT
                  !.branchOk = inRange,
                  !.branch = IF inRange
                             THEN GetMerkleBranch(blk.vMerkleTree,
                                                  Len(blk.vtx), nIndex)
                             ELSE << >>]
  /\ op' = "GetMerkleBranch"
  /\ UNCHANGED << focus, hdr, ahdr, stream, powInput, eqin, aeqin, dec, adec,
                  decOk, blk, ablk, out, aout, loc >>

\* folded = CBlock::CheckMerkleBranch(vtx[nIndex], branch, nIndex)
BlockCheckMerkleBranch ==
  /\ focus = "MerkleTree" /\ op = "GetMerkleBranch"
  /\ ret.branchOk
  /\ ret' = [ret EXCEPT !.folded =
        CheckMerkleBranch(blk.vtx[call.nIndex + 1], ret.branch, call.nIndex)]
  /\ op' = "CheckMerkleBranch"
  /\ UNCHANGED << focus, hdr, ahdr, stream, powInput, eqin, aeqin, dec, adec,
                  decOk, blk, ablk, out, aout, loc, call >>

Next ==
  \/ AssignHeaderField
  \/ HeaderSetNull
  \/ HeaderSerialize
  \/ EquihashInputNew
  \/ EquihashInputSerialize
  \/ StreamTruncate
  \/ HeaderUnserialize
  \/ BlockNew
  \/ BlockGetBlockHeader
  \/ AssignAHeaderField
  \/ AHeaderSetNull
  \/ AHeaderSerialize
  \/ AEquihashInputNew
  \/ AEquihashInputSerialize
  \/ AHeaderUnserialize
  \/ ABlockNew
  \/ ABlockGetBlockHeader
  \/ LocatorPush
  \/ LocatorSetNull
  \/ LocatorSerialize
  \/ BlockSetVtx
  \/ BlockBuildMerkleTree
  \/ BlockGetMerkleBranch
  \/ BlockCheckMerkleBranch

Spec == Init /\ [][Next]_vars

(***************************************************************************)
(* Properties.                                                             *)
(***************************************************************************)
Zero32 == [i \in 1..32 |-> 0]

\* the bytes the length prefix of an n-byte vector takes, for n < 65536
PrefixLen(n) == IF n < 253 THEN 1 ELSE 3

\* C1 as stated: the restricted encoding of a primary header is the first
\* 140 bytes of its full encoding.
C1_RestrictedIsFirst140 ==
  (focus = "CBlockHeader" /\ op = "SerializeInput")
    => powInput = SubSeq(stream, 1, 140)

\* C1, amended: the restricted encoding written by CEquihashInput(h) is 108
\* bytes long and is byte-identical to the first 108 bytes of the full
\* encoding of h (the 140-byte fixed region without the 32-byte nonce).
C1_RestrictedIsFirst108 ==
  (focus = "CBlockHeader" /\ op = "SerializeInput")
    => /\ Len(powInput) = 108
       /\ Len(stream) >= 108
       /\ powInput = SubSeq(stream, 1, 108)

C1_Witness ==
  /\ focus = "CBlockHeader" /\ op = "SerializeInput"
  /\ hdr.nVersion < 0
  /\ hdr.hashMerkleRoot # Zero32
  /\ hdr.hashReserved # hdr.hashMerkleRoot
  /\ hdr.nTime # hdr.nBits
  /\ hdr.nNonce # Zero32
  /\ Len(hdr.nSolution) > 1

\* C2 as stated: the full encoding of a primary header with an empty
\* solution is 172 bytes long, and in general 172 bytes plus the solution
\* length plus the bytes of the length prefix.
C2_FullSizeIs172 ==
  (focus = "CBlockHeader" /\ op = "Serialize")
    => /\ hdr.nSolution = << >> => Len(stream) = 172
       /\ \E k \in 0..9 : Len(stream) = 172 + Len(hdr.nSolution) + k

\* C2, amended: the full encoding of a primary header with an empty solution
\* is 141 bytes long (the 140-byte fixed region, nonce included, and a
\* one-byte zero length); in general it is 140 bytes plus the length prefix
\* (1 byte below 253, 3 bytes from 253 on) plus the solution length.
C2_FullSizeIs140PlusSolution ==
  (focus = "CBlockHeader" /\ op = "Serialize")
    => /\ hdr.nSolution = << >> => Len(stream) = 141
       /\ HEADER_SIZE = 140
       /\ Len(stream) = HEADER_SIZE + PrefixLen(Len(hdr.nSolution))
                          + Len(hdr.nSolution)

C2_Witness ==
  /\ focus = "CBlockHeader" /\ op = "Serialize"
  /\ Len(hdr.nSolution) >= 253
  /\ hdr.nBits # 0

\* C3: reading the full encoding of a primary header back with the same
\* SerializationOp succeeds and yields a header equal to it in every field.
C3_RoundTrip ==
  (focus = "CBlockHeader" /\ op = "Unserialize")
    => /\ decOk
       /\ \A f \in DOMAIN CBlockHeaderTypes : dec[f] = hdr[f]

C3_Witness ==
  /\ focus = "CBlockHeader" /\ op = "Unserialize"
  /\ hdr.nVersion < 0
  /\ hdr.hashPrevBlock # Zero32
  /\ hdr.hashReserved # hdr.hashPrevBlock
  /\ hdr.nTime # 0
  /\ hdr.nBits # 0
  /\ hdr.nNonce # Zero32
  /\ Len(hdr.nSolution) >= 253

\* C4: a primary header is null exactly when nBits is 0, whatever the other
\* fields hold; it is null after construction and after SetNull.
C4_NullIffBitsZero ==
  focus = "CBlockHeader"
    => /\ op \in { "new", "SetNull" } => CBlockHeaderIsNull(hdr)
       /\ hdr.nBits = 0 => CBlockHeaderIsNull(hdr)
       /\ hdr.nBits # 0 => ~CBlockHeaderIsNull(hdr)

C4_Witness ==
  /\ focus = "CBlockHeader" /\ op = "assign"
  /\ hdr.nBits = 0
  /\ hdr.nTime # 0
  /\ hdr.nNonce # Zero32
  /\ hdr.nSolution # << >>

\* C5: after SetNull, and after construction, a primary header has version
\* 4, zero hashes, zero time, bits and nonce, and an empty solution.
C5_SetNullIsCanonical ==
  (focus = "CBlockHeader" /\ op \in { "new", "SetNull" })
    => hdr = [ nVersion |-> 4, hashPrevBlock |-> Zero32,
               hashMerkleRoot |-> Zero32, hashReserved |-> Zero32,
               nTime |-> 0, nBits |-> 0, nNonce |-> Zero32,
               nSolution |-> << >> ]

C5_Witness == focus = "CBlockHeader" /\ op = "SetNull"

\* C6 as stated: the legacy header has the four operations of the primary
\* one, a null check by headerHash emptiness among them.
C6_LegacyHasNullCheck ==
  focus = "ABlockHeader"
    => /\ { "Serialize", "SetNull", "IsNull" } \subseteq CBlockHeaderMethods
       /\ { "Serialize", "SetNull", "IsNull" } \subseteq ABlockHeaderMethods

\* C6, amended: the legacy header has full encode, restricted encode and
\* clear but declares no null check; after SetNull, and after construction,
\* its headerHash and nonce are zero and its solution is empty.
C6_LegacyOperations ==
  focus = "ABlockHeader"
    => /\ { "Serialize", "SetNull" } \subseteq ABlockHeaderMethods
       /\ "IsNull" \notin ABlockHeaderMethods
       /\ op \in { "new", "SetNull" }
            => ahdr = [ headerHash |-> Zero32, nNonce |-> Zero32,
                        nSolution |-> << >> ]

C6_Witness == focus = "ABlockHeader" /\ op = "SetNull"

\* C7: the full encoding of a legacy header is headerHash (32 bytes), nonce
\* (32 bytes) and the length-prefixed solution, in this order; the restricted
\* encoding is the 32 bytes of headerHash, the first 32 bytes of the full one.
C7_LegacyLayout ==
  (focus = "ABlockHeader"
     /\ op \in { "Serialize", "AEquihashInput", "SerializeInput" })
    => LET n == Len(ahdr.nSolution)
           p == PrefixLen(n)
       IN  /\ Len(stream) = 64 + p + n
           /\ SubSeq(stream, 1, 32) = ahdr.headerHash
           /\ SubSeq(stream, 33, 64) = ahdr.nNonce
           /\ SubSeq(stream, 65, 64 + p) =
                 IF n < 253 THEN << n >> ELSE << 253, n % 256, n \div 256 >>
           /\ SubSeq(stream, 65 + p, 64 + p + n) = ahdr.nSolution
           /\ op = "SerializeInput"
                => /\ Len(powInput) = AHEADER_SIZE
                   /\ powInput = ahdr.headerHash
                   /\ powInput = SubSeq(stream, 1, 32)

C7_Witness ==
  /\ focus = "ABlockHeader" /\ op = "SerializeInput"
  /\ ahdr.headerHash # Zero32
  /\ ahdr.nNonce # Zero32
  /\ ahdr.nNonce # ahdr.headerHash
  /\ Len(ahdr.nSolution) >= 253

\* C8: the encoding of a locator is the 4-byte version followed by the
\* hash sequence when nType has SER_GETHASH clear, and the hash sequence
\* alone when it is set; the hash sequence is the same bytes in both modes.
C8_LocatorVersionPrefix ==
  (focus = "CBlockLocator" /\ op = "Serialize")
    => LET n == Len(loc.vHave)
           hashing == call.nType \in { 4, 5, 6, 7 }
           body == IF hashing THEN stream
                   ELSE SubSeq(stream, 5, Len(stream))
       IN  /\ Len(stream) = (IF hashing THEN 0 ELSE 4) + 1 + 32 * n
           /\ ~hashing => SubSeq(stream, 1, 4) = WriteInt32(call.nVersion)
           /\ body = powInput
           /\ body[1] = n
           /\ \A k \in 1..n :
                 SubSeq(body, 2 + 32 * (k - 1), 1 + 32 * k) = loc.vHave[k]

C8_Witness ==
  /\ focus = "CBlockLocator" /\ op = "Serialize"
  /\ call.nType = 1
  /\ Len(loc.vHave) = 2
  /\ loc.vHave[1] # loc.vHave[2]

\* C9: folding leaf i with the branch of leaf i at index i gives the root of
\* the built tree.
C9_BranchVerifies ==
  (focus = "MerkleTree" /\ op = "CheckMerkleBranch")
    => ret.folded = ret.root

C9_Witness ==
  /\ focus = "MerkleTree" /\ op = "CheckMerkleBranch"
  /\ Len(blk.vtx) >= 5
  /\ Len(blk.vtx) % 2 = 1
  /\ call.nIndex = Len(blk.vtx) - 1
  /\ blk.vtx[1] = blk.vtx[2]
  /\ blk.vtx[3] # blk.vtx[4]

C10_State ==
  /\ (focus = "CBlockHeader" /\ op \in { "CBlock", "GetBlockHeader" })
       => /\ blk.vtx = << >>
          /\ blk.vMerkleTree = << >>
  /\ (focus = "CBlockHeader" /\ op = "GetBlockHeader")
       => \A f \in DOMAIN CBlockHeaderTypes : out[f] = hdr[f]
  /\ (focus = "ABlockHeader" /\ op = "GetBlockHeader")
       => \A f \in DOMAIN ABlockHeaderTypes : aout[f] = ahdr[f]

C10_Step ==
  op' \in { "CBlock", "ABlock", "GetBlockHeader" }
    => (hdr' = hdr /\ ahdr' = ahdr)

\* C10: in both families GetBlockHeader of a block constructed from a header
\* returns a header equal to it in every field; the primary block has no
\* transactions and no Merkle tree; the source header is not changed.
C10_BlockKeepsHeader == [] C10_State /\ [][C10_Step]_vars

C10_Witness ==
  /\ focus = "CBlockHeader" /\ op = "GetBlockHeader"
  /\ hdr.nVersion # 4
  /\ hdr.hashReserved # Zero32
  /\ hdr.nBits # 0
  /\ hdr.nNonce # Zero32
  /\ hdr.nSolution # << >>

=============================================================================
